---- MODULE Spec2Model ----
(***************************************************************************)
(* PDF summarizer: text extraction, provider selection, the two provider   *)
(* adapters, the summarize orchestration and the HTTP submission handler. *)
(*                                                                         *)
(* Text is a sequence of one-character strings, so that lower(),           *)
(* startswith(), endswith() and join() are computed and not assumed.       *)
(* An Optional value is None or Some(v).                                   *)
(***************************************************************************)
EXTENDS Integers, Sequences, FiniteSets, TLC

VARIABLES
    pc,            \* position of the request in the handler / in summarize
    caller,        \* "none", "http" (summarize_pdf) or "direct" (summarize called with a path)
    upload,        \* the multipart form of the HTTP request
    disk,          \* the file the request's pdf_path references
    temp_exists,   \* the temporary file of the request exists on disk
    temp_created,  \* NamedTemporaryFile created a file in this request
    temp_path,     \* the handler's local temp_path (None until the upload is written)
    request,       \* the SummaryRequest
    pdf_result,    \* summarize's local pdf_result
    llm_adapter,   \* summarize's local llm_adapter
    llm_request,   \* summarize's local llm_request
    llm_response,  \* summarize's local llm_response
    net,           \* what the provider did with the one call of this request
    steps,         \* the steps of summarize executed so far, in order
    netCalls,      \* outbound network calls issued so far
    raised,        \* the exception as raised by the failing step
    surfaced,      \* the exception as it leaves summarize
    response,      \* the SummaryResponse summarize returned
    status,        \* HTTP status of the handler's answer (0: none yet)
    caught,        \* the exception the handler's try block ended with
    body,          \* APIResponse of the handler
    call,          \* argument of the function under check (function specifications)
    ret,           \* its result
    view,          \* the console view: position, prompts shown and answers read
    tasks,         \* concurrent HTTP requests: the locals of each summarize_pdf call
    tmpfs          \* the temporary directory the HTTP requests share: name -> content

vars == <<pc, caller, upload, disk, temp_exists, temp_created, temp_path, request,
          pdf_result, llm_adapter, llm_request, llm_response, net, steps, netCalls,
          raised, surfaced, caught, response, status, body, call, ret, view, tasks, tmpfs>>

pipeVars == <<pc, caller, upload, disk, temp_exists, temp_created, temp_path, request,
              pdf_result, llm_adapter, llm_request, llm_response, net, steps, netCalls,
              raised, surfaced, caught, response, status, body>>

----------------------------------------------------------------------------
(* Bounds *)

MaxPages == 2
MaxTok == 5
\* answers a console session may get wrong before it answers right
MaxRetries == 2

----------------------------------------------------------------------------
(* Python values *)

None == [isNone |-> TRUE]
Some(v) == [isNone |-> FALSE, val |-> v]

\* bool(x) of an Optional[str] / Optional[tuple]: None and the empty value are falsy
TruthySeq(o) == (~o.isNone) /\ Len(o.val) > 0

\* bool(x) of an Optional[int]: None and 0 are falsy
TruthyInt(o) == (~o.isNone) /\ o.val # 0

Max(a, b) == IF a >= b THEN a ELSE b
Min(a, b) == IF a <= b THEN a ELSE b

ToLower == ("A" :> "a") @@ ("D" :> "d") @@ ("E" :> "e") @@ ("F" :> "f") @@
           ("I" :> "i") @@ ("L" :> "l") @@ ("M" :> "m") @@ ("N" :> "n") @@
           ("O" :> "o") @@ ("P" :> "p") @@ ("T" :> "t") @@ ("X" :> "x")

ToUpper == [c \in {ToLower[u] : u \in DOMAIN ToLower} |->
              CHOOSE u \in DOMAIN ToLower : ToLower[u] = c]

\* str.lower()
Lower(s) == [i \in 1..Len(s) |-> IF s[i] \in DOMAIN ToLower THEN ToLower[s[i]] ELSE s[i]]

\* suffix in s, instead of s.endswith(suffix)
EndsWith_Contains(s, suffix) ==
    \E i \in 1..(Len(s) - Len(suffix) + 1) : SubSeq(s, i, i + Len(suffix) - 1) = suffix

\* str.endswith(suffix)
EndsWith(s, suffix) ==
    /\ Len(s) >= Len(suffix)
    /\ SubSeq(s, Len(s) - Len(suffix) + 1, Len(s)) = suffix

\* str.startswith(prefix)
StartsWith(s, prefix) ==
    /\ Len(s) >= Len(prefix)
    /\ SubSeq(s, 1, Len(prefix)) = prefix

\* sep.join(list)
RECURSIVE Join(_, _)
Join(sep, list) ==
    IF Len(list) = 0 THEN <<>>
    ELSE IF Len(list) = 1 THEN list[1]
    ELSE list[1] \o sep \o Join(sep, Tail(list))

\* range(start, end)
Range(start, end) == [i \in 1..Max(0, end - start) |-> start + i - 1]

----------------------------------------------------------------------------
(* Exceptions: the classes the code raises or catches, and their bases *)

BaseOf == ("FileNotFoundError" :> "OSError") @@ ("ConnectionError" :> "OSError") @@
          ("OSError" :> "Exception") @@ ("ValueError" :> "Exception") @@
          ("JSONDecodeError" :> "ValueError") @@ ("PdfReadError" :> "Exception") @@
          ("RequestError" :> "Exception") @@ ("HTTPStatusError" :> "Exception") @@
          ("APIConnectionError" :> "Exception") @@ ("APIStatusError" :> "Exception") @@
          ("IndexError" :> "Exception") @@ ("KeyError" :> "Exception") @@
          ("ValidationError" :> "ValueError") @@ ("EOFError" :> "Exception") @@
          ("Exception" :> "BaseException") @@ ("KeyboardInterrupt" :> "BaseException")

\* isinstance(e, cls), which is what an except clause tests
RECURSIVE IsInstance(_, _)
IsInstance(cls, base) ==
    IF cls = base THEN TRUE
    ELSE IF cls \in DOMAIN BaseOf THEN IsInstance(BaseOf[cls], base)
    ELSE FALSE

\* An exception: its class, the fixed part of its message and the value the
\* message quotes (empty when it quotes none).
Exc(cls, text, arg) == [cls |-> cls, text |-> text, arg |-> arg]

NoExc == Exc("none", "", <<>>)

Ok(v) == [ok |-> TRUE, val |-> v, exc |-> NoExc]
Raise(e) == [ok |-> FALSE, val |-> None, exc |-> e]

----------------------------------------------------------------------------
(* PDFExtractor *)

BlankLine == <<"\n", "\n">>

\* reader.pages[page_num]: Python indexing, negative indexes count from the end
PageInRange(pages, k) == k >= -Len(pages) /\ k < Len(pages)
PageAt(pages, k) == IF k >= 0 THEN pages[k + 1] ELSE pages[Len(pages) + k + 1]

\* key[1:] for keys that start with "/"
StripKey(key) == IF StartsWith(key, <<"/">>) THEN Tail(key) ELSE key

ExtractMetadata(raw) ==
    [k \in {StripKey(r) : r \in DOMAIN raw} |->
        raw[CHOOSE r \in DOMAIN raw : StripKey(r) = k]]

StartPage_Unclamped(page_range, num_pages) ==
    IF TruthySeq(page_range) THEN page_range.val[1] ELSE 0

StartPage(page_range, num_pages) ==
    IF TruthySeq(page_range) THEN Max(0, page_range.val[1]) ELSE 0

EndPage(page_range, num_pages) ==
    IF TruthySeq(page_range) THEN Min(num_pages, page_range.val[2]) ELSE num_pages

\* pages=num_pages: the count of the whole document
ReportedPages(file, page_nums) == Len(file.pages)

\* PDFExtractor(config).extract(pdf_path); file is what pdf_path references.
\* opened: the file was opened and handed to the PDF reader.
extract(page_range, pdf_path, file) ==
    IF file.kind = "missing"
    THEN Raise(Exc("FileNotFoundError", "PDF file not found: ", pdf_path))
             @@ [opened |-> FALSE]
    ELSE IF file.parse = "PdfReadError"
    THEN Raise(Exc("ValueError", "Invalid PDF file: ", <<>>)) @@ [opened |-> TRUE]
    ELSE IF file.parse # "ok"
    THEN Raise(Exc(file.parse, "", <<>>)) @@ [opened |-> TRUE]
    ELSE
      LET num_pages == Len(file.pages)
          metadata == ExtractMetadata(file.metadata)
          start_page == StartPage(page_range, num_pages)
          end_page == EndPage(page_range, num_pages)
          page_nums == Range(start_page, end_page)
      IN  IF \E i \in 1..Len(page_nums) : ~PageInRange(file.pages, page_nums[i])
          THEN Raise(Exc("IndexError", "", <<>>)) @@ [opened |-> TRUE]
          ELSE
            LET text_content == [i \in 1..Len(page_nums) |-> PageAt(file.pages, page_nums[i])]
                full_text == Join(BlankLine, text_content)
            IN  Ok([text |-> full_text, path |-> pdf_path,
                    pages |-> ReportedPages(file, page_nums),
                    metadata |-> metadata]) @@ [opened |-> TRUE]

----------------------------------------------------------------------------
(* Provider adapters *)

OLLAMA == <<"o", "l", "l", "a", "m", "a">>
OPENAI == <<"o", "p", "e", "n", "a", "i">>

DefaultMaxTokens == 1024

\* OllamaAdapter(): no failure path
OllamaAdapter_init == Ok([cls |-> "OllamaAdapter", api_key |-> <<>>])

\* OpenAIAdapter(config): fails when the configured key is empty
OpenAIAdapter_init(api_key) ==
    IF Len(api_key) = 0
    THEN Raise(Exc("ValueError", "OpenAI API key is required. Set it via OPENAI_API_KEY environment variable.", <<>>))
    ELSE Ok([cls |-> "OpenAIAdapter", api_key |-> api_key])

get_llm_adapter_CaseSensitive(req) ==
    IF req.provider = OLLAMA
    THEN OllamaAdapter_init @@ [constructed |-> <<"OllamaAdapter">>]
    ELSE IF req.provider = OPENAI
    THEN IF ~TruthySeq(req.openai_api_key)
         THEN Raise(Exc("ValueError", "OpenAI API key is required for OpenAI provider", <<>>))
                  @@ [constructed |-> <<>>]
         ELSE OpenAIAdapter_init(req.openai_api_key.val) @@ [constructed |-> <<"OpenAIAdapter">>]
    ELSE Raise(Exc("ValueError", "Unsupported provider: ", req.provider))
             @@ [constructed |-> <<>>]

get_llm_adapter_NoKeyCheck(req) ==
    IF Lower(req.provider) = OLLAMA
    THEN OllamaAdapter_init @@ [constructed |-> <<"OllamaAdapter">>]
    ELSE IF Lower(req.provider) = OPENAI
    THEN Ok([cls |-> "OpenAIAdapter",
             api_key |-> IF req.openai_api_key.isNone THEN <<>> ELSE req.openai_api_key.val])
             @@ [constructed |-> <<"OpenAIAdapter">>]
    ELSE Raise(Exc("ValueError", "Unsupported provider: ", req.provider))
             @@ [constructed |-> <<>>]

\* PDFSummarizer._get_llm_adapter(request).
\* constructed: the adapter classes whose constructor ran.
get_llm_adapter(req) ==
    IF Lower(req.provider) = OLLAMA
    THEN OllamaAdapter_init @@ [constructed |-> <<"OllamaAdapter">>]
    ELSE IF Lower(req.provider) = OPENAI
    THEN IF ~TruthySeq(req.openai_api_key)
         THEN Raise(Exc("ValueError", "OpenAI API key is required for OpenAI provider", <<>>))
                  @@ [constructed |-> <<>>]
         ELSE OpenAIAdapter_init(req.openai_api_key.val) @@ [constructed |-> <<"OpenAIAdapter">>]
    ELSE Raise(Exc("ValueError", "Unsupported provider: ", req.provider))
             @@ [constructed |-> <<>>]

\* dict.get(key, default)
Get(d, key, default) == IF key \in DOMAIN d THEN d[key] ELSE default

\* The JSON body OllamaAdapter.generate posts
OllamaPayload(req) ==
    LET payload == [model |-> req.model, prompt |-> req.prompt,
                    option |-> [max_tokens |-> req.max_tokens, temperature |-> req.temperature],
                    stream |-> FALSE]
    IN  IF TruthyInt(req.max_tokens)
        THEN payload @@ [max_tokens |-> req.max_tokens.val]
        ELSE payload

PostCalls_RetryOnTransportError(n) == IF n.outcome = "transport_error" THEN 2 ELSE 1

\* "await client.post(api_url, json=payload)" appears once, outside any loop
PostCalls(n) == 1

OllamaKeys == {"response", "model", "total_duration", "load_duration",
               "prompt_eval_count", "eval_count", "eval_duration"}

OllamaResponse_Subscript(req, reply) ==
    IF OllamaKeys \subseteq DOMAIN reply
    THEN Ok([text |-> reply["response"], model |-> req.model,
             metadata |-> [model_name |-> reply["model"],
                           total_duration |-> reply["total_duration"],
                           load_duration |-> reply["load_duration"],
                           prompt_eval_count |-> reply["prompt_eval_count"],
                           eval_count |-> reply["eval_count"],
                           eval_duration |-> reply["eval_duration"]]])
    ELSE Raise(Exc("KeyError", "", <<>>))

\* The LLMResponse OllamaAdapter.generate builds from the decoded reply
OllamaResponse(req, reply) ==
    Ok([text |-> Get(reply, "response", <<>>), model |-> req.model,
        metadata |-> [model_name |-> Get(reply, "model", req.model),
                      total_duration |-> Get(reply, "total_duration", 0),
                      load_duration |-> Get(reply, "load_duration", 0),
                      prompt_eval_count |-> Get(reply, "prompt_eval_count", 0),
                      eval_count |-> Get(reply, "eval_count", 0),
                      eval_duration |-> Get(reply, "eval_duration", 0)]])

OllamaFailure_StatusAsConnection(outcome) ==
    IF outcome = "bad_json"
    THEN Exc("ValueError", "Invalid response from Ollama API: ", <<>>)
    ELSE IF outcome = "bad_type"
    THEN Exc("ValidationError", "", <<>>)
    ELSE Exc("ConnectionError", "Failed to connect to Ollama API: ", <<>>)

\* The except clauses of OllamaAdapter.generate: httpx.RequestError becomes
\* ConnectionError, json.JSONDecodeError becomes ValueError, anything else
\* (the HTTPStatusError of raise_for_status, the pydantic ValidationError of
\* LLMResponse when the decoded "response" is not a string) is raised again as
\* it is
OllamaFailure(outcome) ==
    IF outcome = "transport_error"
    THEN Exc("ConnectionError", "Failed to connect to Ollama API: ", <<>>)
    ELSE IF outcome = "bad_json"
    THEN Exc("ValueError", "Invalid response from Ollama API: ", <<>>)
    ELSE IF outcome = "bad_type"
    THEN Exc("ValidationError", "", <<>>)
    ELSE Exc("HTTPStatusError", "", <<>>)

\* OllamaAdapter.generate(request) when the server behaves as n.
\* calls: client.post calls issued; sent: the body posted.
OllamaGenerate(req, n) ==
    LET sent == OllamaPayload(req)
        once == [calls |-> PostCalls(n), sent |-> sent]
    IN  IF n.outcome # "ok"
        THEN Raise(OllamaFailure(n.outcome)) @@ once
        ELSE OllamaResponse(req, n.reply) @@ once

\* The arguments OpenAIAdapter.generate passes to chat.completions.create
OpenAIPayload(req) ==
    [model |-> req.model,
     messages |-> <<[role |-> "system", content |-> <<"You are a helpful assistant.">>],
                    [role |-> "user", content |-> req.prompt]>>,
     temperature |-> req.temperature,
     max_tokens |-> IF TruthyInt(req.max_tokens) THEN req.max_tokens.val ELSE DefaultMaxTokens]

FirstChoice_Last(choices) == choices[Len(choices)]

\* response.choices[0]
FirstChoice(choices) == choices[1]

\* "await self.client.chat.completions.create(...)" appears once, outside any loop
CreateCalls(n) == 1

\* OpenAIAdapter.generate(request) when the API behaves as n: every exception
\* raised inside the try block leaves as a ValueError.
OpenAIGenerate(req, n) ==
    LET sent == OpenAIPayload(req)
        once == [calls |-> CreateCalls(n), sent |-> sent]
        wrapped == Raise(Exc("ValueError", "Error with OpenAI API: ", <<>>)) @@ once
    IN  IF n.outcome # "ok"
        THEN wrapped
        ELSE IF ~TruthySeq(n.reply.choices)
        THEN wrapped
        ELSE LET first == FirstChoice(n.reply.choices.val)
                 usage == n.reply.usage
             IN  Ok([text |-> IF TruthySeq(first.content) THEN first.content.val ELSE <<>>,
                     model |-> req.model,
                     metadata |-> [model_name |-> n.reply.model,
                                   prompt_tokens |-> IF usage.isNone THEN 0 ELSE usage.val.prompt_tokens,
                                   completion_tokens |-> IF usage.isNone THEN 0 ELSE usage.val.completion_tokens,
                                   total_tokens |-> IF usage.isNone THEN 0 ELSE usage.val.total_tokens,
                                   finish_reason |-> first.finish_reason]]) @@ once

\* llm_adapter.generate(llm_request): dispatch on the adapter's class
generate(adapter, req, n) ==
    IF adapter.cls = "OllamaAdapter" THEN OllamaGenerate(req, n) ELSE OpenAIGenerate(req, n)

----------------------------------------------------------------------------
(* PDFSummarizer *)

UNKNOWN == <<"U", "n", "k", "n", "o", "w", "n">>
TITLE == <<"T", "i", "t", "l", "e">>
AUTHOR == <<"A", "u", "t", "h", "o", "r">>

\* The template with metadata[...] and nothing in place of an absent key
create_summary_prompt_NoDefault(res) ==
    <<"\nPlease summarize the following document in a comprehensive way:\n\nDOCUMENT TITLE: ">>
    \o Get(res.metadata, TITLE, <<>>)
    \o <<"\nDOCUMENT AUTHOR: ">> \o Get(res.metadata, AUTHOR, <<>>)
    \o <<"\nDOCUMENT PAGES: ">> \o <<ToString(res.pages)>>
    \o <<"\n\nDOCUMENT CONTENT:\n">> \o res.text
    \o <<"\n\nPlease provide a structured summary covering the main points, key findings, and important details.\n">>

\* PDFSummarizer._create_summary_prompt(pdf_result): the fixed parts of the
\* template are one element each.
create_summary_prompt(res) ==
    <<"\nPlease summarize the following document in a comprehensive way:\n\nDOCUMENT TITLE: ">>
    \o Get(res.metadata, TITLE, UNKNOWN)
    \o <<"\nDOCUMENT AUTHOR: ">> \o Get(res.metadata, AUTHOR, UNKNOWN)
    \o <<"\nDOCUMENT PAGES: ">> \o <<ToString(res.pages)>>
    \o <<"\n\nDOCUMENT CONTENT:\n">> \o res.text
    \o <<"\n\nPlease provide a structured summary covering the main points, key findings, and important details.\n">>

\* LLMRequest(prompt=..., model=..., temperature=..., max_tokens=...)
LLMRequest(prompt, req) ==
    [prompt |-> prompt, model |-> req.model, temperature |-> req.temperature,
     max_tokens |-> req.max_tokens]

SummaryResponse_ExtractedPages(req, res, llm) ==
    [summary |-> llm.text, pdf_path |-> req.pdf_path, provider |-> req.provider,
     model |-> req.model,
     metadata |-> [pdf_pages |-> Len(res.text), pdf_metadata |-> res.metadata,
                   llm_metadata |-> llm.metadata]]

\* The SummaryResponse summarize assembles
SummaryResponse(req, res, llm) ==
    [summary |-> llm.text, pdf_path |-> req.pdf_path, provider |-> req.provider,
     model |-> req.model,
     metadata |-> [pdf_pages |-> res.pages, pdf_metadata |-> res.metadata,
                   llm_metadata |-> llm.metadata]]

Reraise_AsValueError(e) == Exc("ValueError", e.text, e.arg)

\* summarize's "except Exception as e: ...; raise": the exception leaves unchanged
Reraise(e) == e

----------------------------------------------------------------------------
(* Inputs *)

PDF_SUFFIX == <<".", "p", "d", "f">>
TMP == <<"t", "m", "p">> \o PDF_SUFFIX
REPORT == <<"r">> \o PDF_SUFFIX

EmptyDict == [k \in {} |-> 0]

Filenames == {<<"a">> \o PDF_SUFFIX, <<"A", ".", "P", "D", "F">>, <<"a", ".", "t", "x", "t">>,
              <<>>, <<"p", "d", "f">>, <<"a">> \o PDF_SUFFIX \o <<".", "t", "x", "t">>,
              <<"a", ".", "p", "d">>}

Providers == {OLLAMA, <<"O", "L", "L", "A", "M", "A">>, OPENAI,
              <<"O", "p", "e", "n", "A", "I">>, <<"o", "p", "e", "n">>}

FormKeys == {None, Some(<<>>), Some(<<"s", "k">>)}
EnvKeys == {None, Some(<<"e", "k">>)}
MaxTokens == {None, Some(0), Some(MaxTok)}
Temperature == 7

DocMetadata == {EmptyDict,
                (<<"/", "T", "i", "t", "l", "e">> :> <<"Q", "1">>) @@
                (<<"/", "A", "u", "t", "h", "o", "r">> :> <<"B">>)}

PdfFile(pages, metadata) ==
    [kind |-> "pdf", parse |-> "ok", pages |-> pages, metadata |-> metadata]
CorruptFile(parse) ==
    [kind |-> "corrupt", parse |-> parse, pages |-> <<>>, metadata |-> EmptyDict]
MissingFile ==
    [kind |-> "missing", parse |-> "none", pages |-> <<>>, metadata |-> EmptyDict]

\* What the PDF reader does with a file that is no valid PDF: it raises its
\* PdfReadError, or another exception (which extract re-raises as it is)
CorruptFiles == {CorruptFile(p) : p \in {"PdfReadError", "KeyError"}}

PdfFiles == {PdfFile([i \in 1..n |-> <<"a">>], m) : n \in 0..MaxPages, m \in DocMetadata}

OllamaReplies ==
    {EmptyDict,
     ("response" :> <<"S">>) @@ ("model" :> "m2"),
     ("response" :> <<"S">>) @@ ("model" :> "m2") @@ ("total_duration" :> 9) @@
     ("load_duration" :> 1) @@ ("prompt_eval_count" :> 4) @@ ("eval_count" :> 2) @@
     ("eval_duration" :> 3)}

OllamaNets ==
    {[outcome |-> o, reply |-> EmptyDict] :
        o \in {"transport_error", "http_error", "bad_json", "bad_type"}}
    \cup {[outcome |-> "ok", reply |-> r] : r \in OllamaReplies}

Choice(content) == [content |-> content, finish_reason |-> "stop"]
Usage == [prompt_tokens |-> 4, completion_tokens |-> 2, total_tokens |-> 6]

OpenAIReplies ==
    {[choices |-> c, usage |-> u, model |-> "m2"] :
        c \in {None, Some(<<>>), Some(<<Choice(Some(<<"S">>))>>), Some(<<Choice(None)>>)},
        u \in {None, Some(Usage)}}

OpenAINets ==
    {[outcome |-> o, reply |-> EmptyDict] : o \in {"transport_error", "http_error"}}
    \cup {[outcome |-> "ok", reply |-> r] : r \in OpenAIReplies}

NetsOf(adapter) == IF adapter.cls = "OllamaAdapter" THEN OllamaNets ELSE OpenAINets

----------------------------------------------------------------------------
(* The HTTP submission handler, summarize_pdf *)

Nil == [set |-> FALSE]

PipeInit ==
    /\ pc = "idle"
    /\ caller = "none"
    /\ upload = Nil
    /\ disk = MissingFile
    /\ temp_exists = FALSE
    /\ temp_created = FALSE
    /\ temp_path = None
    /\ request = Nil
    /\ pdf_result = Nil
    /\ llm_adapter = Nil
    /\ llm_request = Nil
    /\ llm_response = Nil
    /\ net = Nil
    /\ steps = <<>>
    /\ netCalls = 0
    /\ raised = NoExc
    /\ surfaced = NoExc
    /\ caught = NoExc
    /\ response = Nil
    /\ status = 0
    /\ body = Nil

\* No console session and no concurrent requests
NoFrontEnd == view = Nil /\ tasks = Nil /\ tmpfs = Nil

Init ==
    /\ PipeInit
    /\ NoFrontEnd
    /\ call = Nil
    /\ ret = Nil

\* "openai_api_key or os.getenv('OPENAI_API_KEY')"
KeyOrEnv(form_key, env_key) == IF TruthySeq(form_key) THEN form_key ELSE env_key

SummaryRequest(pdf_path, provider, model, temperature, max_tokens, openai_api_key) ==
    [pdf_path |-> pdf_path, provider |-> provider, model |-> model,
     temperature |-> temperature, max_tokens |-> max_tokens,
     openai_api_key |-> openai_api_key]

\* The filename check that precedes the try block
summarize_pdf_Receive ==
    /\ pc = "idle"
    /\ \E filename \in Filenames, provider \in Providers, form_key \in FormKeys,
          env_key \in EnvKeys, max_tokens \in MaxTokens, content \in PdfFiles \cup CorruptFiles :
            upload' = [filename |-> filename, provider |-> provider, model |-> "m",
                       temperature |-> Temperature, max_tokens |-> max_tokens,
                       openai_api_key |-> form_key, env_key |-> env_key,
                       content |-> content]
    /\ caller' = "http"
    /\ IF ~EndsWith(Lower(upload'.filename), PDF_SUFFIX)
       THEN status' = 400 /\ pc' = "returned"
       ELSE status' = 0 /\ pc' = "try"
    /\ UNCHANGED <<disk, temp_exists, temp_created, temp_path, request, pdf_result,
                   llm_adapter, llm_request, llm_response, net, steps, netCalls,
                   raised, surfaced, caught, response, body, call, ret, view, tasks, tmpfs>>

\* The with block: create the temporary file, read the upload, write it, and
\* only then bind temp_path; then build the SummaryRequest and the summarizer.
summarize_pdf_StoreUpload ==
    /\ pc = "try"
    /\ \E o \in {"create_fails", "read_fails", "write_fails", "ok"} :
         /\ temp_created' = (o # "create_fails")
         /\ temp_exists' = (o # "create_fails")
         /\ IF o = "ok"
            THEN /\ temp_path' = Some(TMP)
                 /\ disk' = upload.content
                 /\ request' = SummaryRequest(TMP, upload.provider, upload.model,
                                              upload.temperature, upload.max_tokens,
                                              KeyOrEnv(upload.openai_api_key, upload.env_key))
                 /\ pc' = "extract"
                 /\ caught' = caught
            ELSE /\ caught' = Exc(IF o = "read_fails" THEN "Exception" ELSE "OSError", o, <<>>)
                 /\ pc' = "except"
                 /\ UNCHANGED <<temp_path, disk, request>>
    /\ UNCHANGED <<caller, upload, pdf_result, llm_adapter, llm_request, llm_response,
                   net, steps, netCalls, raised, surfaced, response, status, body,
                   call, ret, view, tasks, tmpfs>>

\* summarize(request) called with a path by any other caller
summarize_Direct ==
    /\ pc = "idle"
    /\ caller' = "direct"
    /\ \E file \in PdfFiles \cup CorruptFiles \cup {MissingFile}, provider \in Providers,
          key \in FormKeys, max_tokens \in MaxTokens :
         /\ disk' = file
         /\ request' = SummaryRequest(REPORT, provider, "m", Temperature, max_tokens, key)
    /\ pc' = "extract"
    /\ UNCHANGED <<upload, temp_exists, temp_created, temp_path, pdf_result, llm_adapter,
                   llm_request, llm_response, net, steps, netCalls, raised, surfaced,
                   caught, response, status, body, call, ret, view, tasks, tmpfs>>

----------------------------------------------------------------------------
(* PDFSummarizer.summarize, step by step *)

\* What request.pdf_path references when extract looks at it
SeenFile == IF caller = "http" /\ ~temp_exists THEN MissingFile ELSE disk

\* summarize with the adapter selected before the extraction
summarize_Extract_SelectFirst ==
    /\ pc = "extract"
    /\ LET a == get_llm_adapter(request)
           r == extract(None, request.pdf_path, SeenFile)
       IN  IF ~a.ok
           THEN /\ steps' = Append(steps, "select")
                /\ raised' = a.exc /\ pc' = "reraise" /\ pdf_result' = pdf_result
           ELSE /\ steps' = Append(steps, "extract")
                /\ IF r.ok
                   THEN pdf_result' = r.val /\ pc' = "select" /\ raised' = raised
                   ELSE raised' = r.exc /\ pc' = "reraise" /\ pdf_result' = pdf_result
    /\ UNCHANGED <<caller, upload, disk, temp_exists, temp_created, temp_path, request,
                   llm_adapter, llm_request, llm_response, net, netCalls, surfaced,
                   caught, response, status, body, call, ret, view, tasks, tmpfs>>

\* pdf_result = self.pdf_extractor.extract(request.pdf_path); the summarizer's
\* extractor has the default configuration (no page range)
summarize_Extract ==
    /\ pc = "extract"
    /\ steps' = Append(steps, "extract")
    /\ LET r == extract(None, request.pdf_path, SeenFile)
       IN  IF r.ok
           THEN pdf_result' = r.val /\ pc' = "select" /\ raised' = raised
           ELSE raised' = r.exc /\ pc' = "reraise" /\ pdf_result' = pdf_result
    /\ UNCHANGED <<caller, upload, disk, temp_exists, temp_created, temp_path, request,
                   llm_adapter, llm_request, llm_response, net, netCalls, surfaced,
                   caught, response, status, body, call, ret, view, tasks, tmpfs>>

\* llm_adapter = self._get_llm_adapter(request)
summarize_GetAdapter ==
    /\ pc = "select"
    /\ steps' = Append(steps, "select")
    /\ LET r == get_llm_adapter(request)
       IN  IF r.ok
           THEN llm_adapter' = r.val /\ pc' = "prompt" /\ raised' = raised
           ELSE raised' = r.exc /\ pc' = "reraise" /\ llm_adapter' = llm_adapter
    /\ UNCHANGED <<caller, upload, disk, temp_exists, temp_created, temp_path, request,
                   pdf_result, llm_request, llm_response, net, netCalls, surfaced,
                   caught, response, status, body, call, ret, view, tasks, tmpfs>>

\* prompt = self._create_summary_prompt(pdf_result); llm_request = LLMRequest(...)
summarize_CreatePrompt ==
    /\ pc = "prompt"
    /\ steps' = Append(steps, "prompt")
    /\ llm_request' = LLMRequest(create_summary_prompt(pdf_result), request)
    /\ pc' = "generate"
    /\ UNCHANGED <<caller, upload, disk, temp_exists, temp_created, temp_path, request,
                   pdf_result, llm_adapter, llm_response, net, netCalls, raised, surfaced,
                   caught, response, status, body, call, ret, view, tasks, tmpfs>>

\* llm_response = await llm_adapter.generate(llm_request)
summarize_Generate ==
    /\ pc = "generate"
    /\ steps' = Append(steps, "generate")
    /\ \E n \in NetsOf(llm_adapter) :
         LET r == generate(llm_adapter, llm_request, n)
         IN  /\ net' = n
             /\ netCalls' = netCalls + r.calls
             /\ IF r.ok
                THEN llm_response' = r.val /\ pc' = "assemble" /\ raised' = raised
                ELSE raised' = r.exc /\ pc' = "reraise" /\ llm_response' = llm_response
    /\ UNCHANGED <<caller, upload, disk, temp_exists, temp_created, temp_path, request,
                   pdf_result, llm_adapter, llm_request, surfaced, caught, response,
                   status, body, call, ret, view, tasks, tmpfs>>

\* return SummaryResponse(...)
summarize_Return ==
    /\ pc = "assemble"
    /\ steps' = Append(steps, "assemble")
    /\ response' = SummaryResponse(request, pdf_result, llm_response)
    /\ pc' = "summarized"
    /\ UNCHANGED <<caller, upload, disk, temp_exists, temp_created, temp_path, request,
                   pdf_result, llm_adapter, llm_request, llm_response, net, netCalls,
                   raised, surfaced, caught, status, body, call, ret, view, tasks, tmpfs>>

\* except Exception as e: log; raise
summarize_Except ==
    /\ pc = "reraise"
    /\ surfaced' = Reraise(raised)
    /\ pc' = "failed"
    /\ UNCHANGED <<caller, upload, disk, temp_exists, temp_created, temp_path, request,
                   pdf_result, llm_adapter, llm_request, llm_response, net, steps,
                   netCalls, raised, caught, response, status, body, call, ret, view, tasks, tmpfs>>

----------------------------------------------------------------------------
(* summarize_pdf: the answer and the cleanup *)

APIResponse(resp, filename) ==
    [summary |-> resp.summary, filename |-> filename, provider |-> resp.provider,
     model |-> resp.model, metadata |-> resp.metadata]

ExceptStatus_ConnectionAsInternal(cls) ==
    IF IsInstance(cls, "FileNotFoundError") THEN 404
    ELSE IF IsInstance(cls, "ValueError") THEN 400
    ELSE 500

\* The except clauses of summarize_pdf, in their order
ExceptStatus(cls) ==
    IF IsInstance(cls, "FileNotFoundError") THEN 404
    ELSE IF IsInstance(cls, "ValueError") THEN 400
    ELSE IF IsInstance(cls, "ConnectionError") THEN 503
    ELSE 500

\* return APIResponse(...)
summarize_pdf_Return ==
    /\ pc = "summarized"
    /\ caller = "http"
    /\ body' = APIResponse(response, upload.filename)
    /\ status' = 200
    /\ pc' = "finally"
    /\ UNCHANGED <<caller, upload, disk, temp_exists, temp_created, temp_path, request,
                   pdf_result, llm_adapter, llm_request, llm_response, net, steps,
                   netCalls, raised, surfaced, caught, response, call, ret, view, tasks, tmpfs>>

\* The except clauses: the exception of the try block becomes an HTTPException
summarize_pdf_Except ==
    /\ \/ pc = "failed" /\ caller = "http" /\ caught' = surfaced
       \/ pc = "except" /\ caught' = caught
    /\ status' = ExceptStatus(caught'.cls)
    /\ pc' = "finally"
    /\ UNCHANGED <<caller, upload, disk, temp_exists, temp_created, temp_path, request,
                   pdf_result, llm_adapter, llm_request, llm_response, net, steps,
                   netCalls, raised, surfaced, response, body, call, ret, view, tasks, tmpfs>>

\* finally: "if temp_path and os.path.exists(temp_path): os.unlink(temp_path)",
\* a failing unlink is logged and swallowed. The value is whether the file
\* exists afterwards.
Cleanup(path, exists, unlink_ok) ==
    IF TruthySeq(path) /\ exists THEN ~unlink_ok ELSE exists

summarize_pdf_Finally ==
    /\ pc = "finally"
    /\ \E unlink_ok \in BOOLEAN : temp_exists' = Cleanup(temp_path, temp_exists, unlink_ok)
    /\ pc' = "returned"
    /\ UNCHANGED <<caller, upload, disk, temp_created, temp_path, request,
                   pdf_result, llm_adapter, llm_request, llm_response, net, steps,
                   netCalls, raised, surfaced, caught, response, status, body, call, ret, view, tasks, tmpfs>>

Next ==
    \/ summarize_pdf_Receive
    \/ summarize_pdf_StoreUpload
    \/ summarize_Direct
    \/ summarize_Extract
    \/ summarize_GetAdapter
    \/ summarize_CreatePrompt
    \/ summarize_Generate
    \/ summarize_Return
    \/ summarize_Except
    \/ summarize_pdf_Return
    \/ summarize_pdf_Except
    \/ summarize_pdf_Finally

Spec == Init /\ [][Next]_vars

----------------------------------------------------------------------------
(* PDFExtractor.extract as a function of the configured range and the file *)

PageTexts == {<<>>, <<"a">>, <<"b", "c">>}

ExtractFiles ==
    {PdfFile(p, m) : p \in UNION {[1..n -> PageTexts] : n \in 0..MaxPages}, m \in DocMetadata}
    \cup CorruptFiles \cup {MissingFile}

PageRanges ==
    {None} \cup {Some(<<s, e>>) : s \in -(MaxPages + 1)..(MaxPages + 1),
                                  e \in -(MaxPages + 1)..(MaxPages + 1)}

InitExtract ==
    /\ PipeInit
    /\ NoFrontEnd
    /\ call \in {[page_range |-> r, pdf_path |-> REPORT, file |-> f] :
                    r \in PageRanges, f \in ExtractFiles}
    /\ ret = Nil

ExtractCall ==
    /\ ~ret.set
    /\ ret' = extract(call.page_range, call.pdf_path, call.file) @@ [set |-> TRUE]
    /\ UNCHANGED <<call, pipeVars, view, tasks, tmpfs>>

SpecExtract == InitExtract /\ [][ExtractCall]_vars

----------------------------------------------------------------------------
(* PDFSummarizer._get_llm_adapter as a function of the request *)

Casings(name) ==
    {[i \in 1..Len(name) |-> IF i \in U THEN ToUpper[name[i]] ELSE name[i]] :
        U \in SUBSET (1..Len(name))}

OtherNames == {<<>>, <<"o", "p", "e", "n">>, OPENAI \o <<" ">>, <<"O", "L", "L", "A", "M">>,
               <<"o", "l", "l", "a", "m", "a", "2">>}

InitSelect ==
    /\ PipeInit
    /\ NoFrontEnd
    /\ call \in {SummaryRequest(REPORT, p, "m", Temperature, None, k) :
                    p \in Casings(OLLAMA) \cup Casings(OPENAI) \cup OtherNames,
                    k \in FormKeys}
    /\ ret = Nil

SelectCall ==
    /\ ~ret.set
    /\ ret' = get_llm_adapter(call) @@ [set |-> TRUE]
    /\ UNCHANGED <<call, pipeVars, view, tasks, tmpfs>>

SpecSelect == InitSelect /\ [][SelectCall]_vars

----------------------------------------------------------------------------
(* Properties *)

Did(step) == \E i \in 1..Len(steps) : steps[i] = step

AllSteps == <<"extract", "select", "prompt", "generate", "assemble">>

\* summarize has returned or raised
SummarizeEnded ==
    \/ pc \in {"summarized", "failed"}
    \/ pc \in {"finally", "returned"} /\ Len(steps) > 0

SummarizeFailed == SummarizeEnded /\ surfaced.cls # "none"
SummarizeSucceeded == SummarizeEnded /\ Did("assemble")

HandlerEnded == caller = "http" /\ pc = "returned"

\* C1: once summarize_pdf has returned or raised, a temporary file it created
\* no longer exists.
C1_TempFileRemovedOnEveryExit ==
    (HandlerEnded /\ temp_created) => ~temp_exists

\* C2: when the call to the selected provider fails at the transport level,
\* summarize fails with a connection error, whichever adapter was selected,
\* and the HTTP handler answers 503.
C2_TransportFailureIsConnectionError ==
    (SummarizeEnded /\ Did("generate") /\ net.outcome = "transport_error") =>
        /\ IsInstance(surfaced.cls, "ConnectionError")
        /\ ~IsInstance(surfaced.cls, "ValueError")
        /\ HandlerEnded => status = 503

\* C3: the handler's status is decided by the kind of the failure of summarize
\* alone (not-found 404, value error 400, connection error 503, other 500);
\* success gives no error status and failure gives no body.
C3_StatusByFailureKind ==
    HandlerEnded =>
        /\ SummarizeFailed =>
             /\ body = Nil
             /\ IsInstance(surfaced.cls, "FileNotFoundError") => status = 404
             /\ IsInstance(surfaced.cls, "ValueError") => status = 400
             /\ IsInstance(surfaced.cls, "ConnectionError") => status = 503
             /\ (~IsInstance(surfaced.cls, "FileNotFoundError")
                 /\ ~IsInstance(surfaced.cls, "ValueError")
                 /\ ~IsInstance(surfaced.cls, "ConnectionError")) => status = 500
        /\ SummarizeSucceeded =>
             /\ status = 200
             /\ body # Nil
             /\ body.summary = response.summary

C3_Witness ==
    /\ HandlerEnded
    /\ SummarizeFailed
    /\ surfaced.cls = "ConnectionError"
    /\ status = 503

\* C4: summarize runs its steps once each and in order; a step that fails is
\* the last step executed, its exception leaves summarize with the class it
\* was raised with, and no SummaryResponse exists; a SummaryResponse exists
\* only after all the steps succeeded.
C4_AllOrNothing ==
    /\ Len(steps) <= Len(AllSteps)
    /\ steps = SubSeq(AllSteps, 1, Len(steps))
    /\ raised.cls # "none" =>
         /\ response = Nil
         /\ pc \in {"reraise", "failed", "finally", "returned"}
         /\ pdf_result = Nil => steps = SubSeq(AllSteps, 1, 1)
         /\ (pdf_result # Nil /\ llm_adapter = Nil) => steps = SubSeq(AllSteps, 1, 2)
         /\ llm_adapter # Nil => (steps = SubSeq(AllSteps, 1, 4) /\ llm_response = Nil)
    /\ SummarizeFailed => surfaced = raised
    /\ response # Nil => (steps = AllSteps /\ raised.cls = "none" /\ surfaced.cls = "none")
    /\ SummarizeEnded => (response # Nil <=> ~SummarizeFailed)

C4_Witness ==
    /\ pc = "failed"
    /\ steps = SubSeq(AllSteps, 1, 4)
    /\ surfaced.cls = "ConnectionError"
    /\ response = Nil

\* C5: the metadata of a returned SummaryResponse has exactly the keys
\* pdf_pages, pdf_metadata and llm_metadata, holding the extraction result's
\* page count, the extraction result's metadata and the provider response's
\* metadata.
C5_ResponseMetadata ==
    SummarizeSucceeded =>
        /\ DOMAIN response.metadata = {"pdf_pages", "pdf_metadata", "llm_metadata"}
        /\ response.metadata.pdf_pages = pdf_result.pages
        /\ response.metadata.pdf_pages = Len(disk.pages)
        /\ response.metadata.pdf_metadata = pdf_result.metadata
        /\ response.metadata.llm_metadata = llm_response.metadata

C5_Witness ==
    /\ SummarizeSucceeded
    /\ response.metadata.pdf_pages = MaxPages
    /\ DOMAIN response.metadata.pdf_metadata # {}

\* The request selects the cloud provider and carries no credential: none in
\* the request and, for the HTTP handler, none in the environment either.
CloudWithoutCredential ==
    /\ caller # "none"
    /\ request # Nil
    /\ Lower(request.provider) = OPENAI
    /\ IF caller = "http"
       THEN ~TruthySeq(upload.openai_api_key) /\ ~TruthySeq(upload.env_key)
       ELSE ~TruthySeq(request.openai_api_key)

\* C6 as stated: with the cloud provider and no credential the operation
\* fails with a value error raised at adapter selection, and no network call
\* is issued.
C6_CloudWithoutCredentialFailsAtSelection ==
    (CloudWithoutCredential /\ SummarizeEnded) =>
        /\ SummarizeFailed
        /\ IsInstance(surfaced.cls, "ValueError")
        /\ steps = SubSeq(AllSteps, 1, 2)
        /\ netCalls = 0

\* C6 as amended: with the cloud provider and no credential no network call
\* is ever issued and summarize fails; when extraction succeeded, the failure
\* is the value error raised at adapter selection.
C6_CloudWithoutCredentialNeverCalls ==
    CloudWithoutCredential =>
        /\ netCalls = 0
        /\ ~Did("generate")
        /\ llm_adapter = Nil
        /\ SummarizeEnded =>
             /\ SummarizeFailed
             /\ pdf_result # Nil =>
                  /\ IsInstance(surfaced.cls, "ValueError")
                  /\ steps = SubSeq(AllSteps, 1, 2)

C6_Witness ==
    /\ CloudWithoutCredential
    /\ HandlerEnded
    /\ pdf_result # Nil
    /\ surfaced.cls = "ValueError"
    /\ status = 400

IsCasingOf(name, base) ==
    /\ Len(name) = Len(base)
    /\ \A i \in 1..Len(base) : name[i] = base[i] \/ name[i] = ToUpper[base[i]]

\* C7: every casing of "ollama" selects the local-server adapter, every casing
\* of "openai" selects the cloud adapter (or fails for its missing credential),
\* and every other name fails with a value error quoting that name, no
\* adapter having been constructed.
C7_SelectionByCaseFoldedName ==
    ret.set =>
        /\ IsCasingOf(call.provider, OLLAMA) =>
             ret.ok /\ ret.val.cls = "OllamaAdapter" /\ ret.constructed = <<"OllamaAdapter">>
        /\ (IsCasingOf(call.provider, OPENAI) /\ TruthySeq(call.openai_api_key)) =>
             ret.ok /\ ret.val.cls = "OpenAIAdapter" /\ ret.constructed = <<"OpenAIAdapter">>
        /\ (IsCasingOf(call.provider, OPENAI) /\ ~TruthySeq(call.openai_api_key)) =>
             /\ ~ret.ok
             /\ ret.exc.cls = "ValueError"
             /\ ret.exc.text = "OpenAI API key is required for OpenAI provider"
        /\ (~IsCasingOf(call.provider, OLLAMA) /\ ~IsCasingOf(call.provider, OPENAI)) =>
             /\ ~ret.ok
             /\ ret.exc.cls = "ValueError"
             /\ ret.exc.text = "Unsupported provider: "
             /\ ret.exc.arg = call.provider
             /\ ret.constructed = <<>>

C7_Witness ==
    /\ ret.set
    /\ call.provider = <<"O", "p", "e", "n", "A", "I">>
    /\ ret.ok
    /\ ret.val.cls = "OpenAIAdapter"

CoveredPages(page_range, n) ==
    IF page_range.isNone THEN 0..(n - 1)
    ELSE {i \in 0..(n - 1) : i >= page_range.val[1] /\ i < page_range.val[2]}

\* The texts of the pages of a set of indexes, ascending, a blank line between
\* two consecutive ones
RECURSIVE TextOfPages(_, _)
TextOfPages(pages, S) ==
    IF S = {} THEN <<>>
    ELSE LET last == CHOOSE i \in S : \A j \in S : j <= i
             before == S \ {last}
         IN  IF before = {} THEN pages[last + 1]
             ELSE TextOfPages(pages, before) \o <<"\n", "\n">> \o pages[last + 1]

\* C9: for a valid document of n pages and any configured range (s, e),
\* extract returns the texts of the pages [max(0,s), min(n,e)) in ascending
\* order with a blank line between them and reports n pages; without a range
\* it returns all pages.
C9_RangeCoversClampedPages ==
    (ret.set /\ call.file.kind = "pdf") =>
        /\ ret.ok
        /\ ret.val.pages = Len(call.file.pages)
        /\ ret.val.text = TextOfPages(call.file.pages,
                                      CoveredPages(call.page_range, Len(call.file.pages)))

C9_Witness ==
    /\ ret.set
    /\ call.file.kind = "pdf"
    /\ Len(call.file.pages) = MaxPages
    /\ ~call.page_range.isNone
    /\ call.page_range.val[1] < 0
    /\ call.page_range.val[2] > MaxPages
    /\ ret.ok
    /\ Len(ret.val.text) > 0

\* C10: extract fails with not-found, and opens nothing, when the path
\* references no file; it fails with a value error, and returns no result,
\* when the file is no valid PDF.
C10_MissingIsNotFoundCorruptIsValueError ==
    ret.set =>
        /\ call.file.kind = "missing" =>
             ~ret.ok /\ ret.exc.cls = "FileNotFoundError" /\ ~ret.opened
        /\ call.file.kind = "corrupt" =>
             ~ret.ok /\ IsInstance(ret.exc.cls, "ValueError")

----------------------------------------------------------------------------
(* generate of the two adapters as a function of the request and of what the
   provider does *)

FullOllamaReply ==
    ("response" :> <<"S">>) @@ ("model" :> "m2") @@ ("total_duration" :> 9) @@
    ("load_duration" :> 1) @@ ("prompt_eval_count" :> 4) @@ ("eval_count" :> 2) @@
    ("eval_duration" :> 3)

\* Every reply that has some of the fields and lacks the others
AllOllamaNets ==
    {[outcome |-> o, reply |-> EmptyDict] :
        o \in {"transport_error", "http_error", "bad_json", "bad_type"}}
    \cup {[outcome |-> "ok", reply |-> [k \in K |-> FullOllamaReply[k]]] : K \in SUBSET OllamaKeys}

SecondChoice == [content |-> Some(<<"T">>), finish_reason |-> "length"]

AllOpenAINets ==
    OpenAINets
    \cup {[outcome |-> "ok", reply |-> [choices |-> Some(c), usage |-> u, model |-> "m2"]] :
            c \in {<<Choice(Some(<<>>))>>, <<Choice(Some(<<"S">>)), SecondChoice>>,
                   <<SecondChoice, Choice(None)>>},
            u \in {None, Some(Usage)}}

GenerateRequests ==
    {[prompt |-> <<"P">>, model |-> "m", temperature |-> Temperature, max_tokens |-> t] :
        t \in MaxTokens}

InitGenerate ==
    /\ PipeInit
    /\ NoFrontEnd
    /\ call \in {[adapter |-> a, req |-> r, net |-> n] :
                    a \in {OllamaAdapter_init.val}, r \in GenerateRequests, n \in AllOllamaNets}
                \cup
                {[adapter |-> a, req |-> r, net |-> n] :
                    a \in {OpenAIAdapter_init(<<"s", "k">>).val}, r \in GenerateRequests,
                    n \in AllOpenAINets}
    /\ ret = Nil

GenerateCall ==
    /\ ~ret.set
    /\ ret' = generate(call.adapter, call.req, call.net) @@ [set |-> TRUE]
    /\ UNCHANGED <<call, pipeVars, view, tasks, tmpfs>>

SpecGenerate == InitGenerate /\ [][GenerateCall]_vars

OllamaCounters == {"total_duration", "load_duration", "prompt_eval_count", "eval_count",
                   "eval_duration"}

OllamaReplied == ret.set /\ call.adapter.cls = "OllamaAdapter" /\ call.net.outcome = "ok"

OpenAIReplied ==
    /\ ret.set
    /\ call.adapter.cls = "OpenAIAdapter"
    /\ call.net.outcome = "ok"

\* C11: a reply that lacks optional fields still gives a response, with the
\* default in place of each absent field: for the local-server adapter 0 for
\* an absent counter, the request's model for an absent model, empty text for
\* an absent response; for the cloud adapter 0 for the three token counts when
\* usage is absent and empty text when the first choice has no content.
C11_AbsentFieldsGetDefaults ==
    /\ OllamaReplied =>
         /\ ret.ok
         /\ \A k \in OllamaCounters :
              ret.val.metadata[k] = IF k \in DOMAIN call.net.reply THEN call.net.reply[k] ELSE 0
         /\ ret.val.metadata.model_name =
              IF "model" \in DOMAIN call.net.reply THEN call.net.reply["model"]
              ELSE call.req.model
         /\ ret.val.text =
              IF "response" \in DOMAIN call.net.reply THEN call.net.reply["response"] ELSE <<>>
    /\ (OpenAIReplied /\ TruthySeq(call.net.reply.choices)) =>
         /\ ret.ok
         /\ call.net.reply.usage.isNone =>
              /\ ret.val.metadata.prompt_tokens = 0
              /\ ret.val.metadata.completion_tokens = 0
              /\ ret.val.metadata.total_tokens = 0
         /\ ~call.net.reply.usage.isNone =>
              ret.val.metadata.total_tokens = call.net.reply.usage.val.total_tokens
         /\ call.net.reply.choices.val[1].content.isNone => ret.val.text = <<>>

C11_Witness ==
    /\ OllamaReplied
    /\ DOMAIN call.net.reply = {"response"}
    /\ ret.ok
    /\ ret.val.metadata.eval_count = 0
    /\ ret.val.metadata.model_name = "m"

\* C15: the cloud adapter sends the caller's max_tokens when the caller gave
\* one, and 1024 when the caller gave none.
C15_CapSentUnchangedOrDefault ==
    (ret.set /\ call.adapter.cls = "OpenAIAdapter") =>
        ret.sent.max_tokens =
            IF call.req.max_tokens.isNone THEN 1024 ELSE call.req.max_tokens.val

\* C16: the cloud adapter fails with a value error, and gives no response,
\* when the reply has no choices (none or an empty list); otherwise the text
\* and the finish reason are those of the first choice.
C16_NoChoicesIsValueError ==
    OpenAIReplied =>
        /\ ~TruthySeq(call.net.reply.choices) =>
             /\ ~ret.ok
             /\ IsInstance(ret.exc.cls, "ValueError")
             /\ ret.val = None
        /\ TruthySeq(call.net.reply.choices) =>
             /\ ret.ok
             /\ ret.val.text =
                  IF call.net.reply.choices.val[1].content.isNone THEN <<>>
                  ELSE call.net.reply.choices.val[1].content.val
             /\ ret.val.metadata.finish_reason = call.net.reply.choices.val[1].finish_reason

C16_Witness ==
    /\ OpenAIReplied
    /\ TruthySeq(call.net.reply.choices)
    /\ Len(call.net.reply.choices.val) = 2
    /\ ret.ok
    /\ ret.val.text = <<"S">>
    /\ ret.val.metadata.finish_reason = "stop"

\* C17: the body posted to the local server has model, prompt, option (with
\* max_tokens and temperature) and stream = false; it has a top-level
\* max_tokens, equal to the request's cap, exactly when the request has a cap.
C17_OllamaBody ==
    (ret.set /\ call.adapter.cls = "OllamaAdapter") =>
        /\ {"model", "prompt", "option", "stream"} \subseteq DOMAIN ret.sent
        /\ DOMAIN ret.sent \subseteq {"model", "prompt", "option", "stream", "max_tokens"}
        /\ ret.sent.model = call.req.model
        /\ ret.sent.prompt = call.req.prompt
        /\ DOMAIN ret.sent.option = {"max_tokens", "temperature"}
        /\ ret.sent.option.max_tokens = call.req.max_tokens
        /\ ret.sent.option.temperature = call.req.temperature
        /\ ret.sent.stream = FALSE
        /\ ("max_tokens" \in DOMAIN ret.sent) <=> ~call.req.max_tokens.isNone
        /\ ("max_tokens" \in DOMAIN ret.sent) => ret.sent.max_tokens = call.req.max_tokens.val

\* The name ends in a dot followed by p, d, f in either case.
IsPdfName(name) ==
    /\ Len(name) >= 4
    /\ name[Len(name) - 3] = "."
    /\ name[Len(name) - 2] \in {"p", "P"}
    /\ name[Len(name) - 1] \in {"d", "D"}
    /\ name[Len(name)] \in {"f", "F"}

\* C13: an upload whose filename does not end in .pdf, in any casing, is
\* answered with 400 before a temporary file is created, a request or an
\* adapter is built, a page is extracted or the provider is called.
C13_NonPdfRejectedBeforeAnyWork ==
    (caller = "http" /\ ~IsPdfName(upload.filename)) =>
        /\ pc = "returned"
        /\ status = 400
        /\ ~temp_created
        /\ ~temp_exists
        /\ temp_path = None
        /\ request = Nil
        /\ pdf_result = Nil
        /\ llm_adapter = Nil
        /\ steps = <<>>
        /\ netCalls = 0

C13_Witness ==
    /\ caller = "http"
    /\ upload.filename = <<"a">> \o PDF_SUFFIX \o <<".", "t", "x", "t">>
    /\ pc = "returned"
    /\ status = 400
    /\ ~temp_created

\* The request names no supported provider, or names the cloud provider
\* without a credential: adapter selection would refuse it.
SelectionWouldFail == request # Nil /\ ~get_llm_adapter(request).ok

\* C19: summarize runs extract, select, prompt, generate in this order; the
\* adapter is selected and constructed only after the extraction succeeded;
\* a request for a missing file fails with not-found, never with a value
\* error, even when its provider is unknown or its cloud credential missing.
C19_ExtractionBeforeSelection ==
    /\ steps = SubSeq(AllSteps, 1, Len(steps))
    /\ Did("select") => pdf_result # Nil
    /\ llm_adapter # Nil => (pdf_result # Nil /\ Did("select"))
    /\ (raised.cls # "none" /\ pdf_result = Nil) => steps = <<"extract">>
    /\ (caller = "direct" /\ disk = MissingFile /\ SummarizeEnded) =>
         /\ steps = <<"extract">>
         /\ llm_adapter = Nil
         /\ IsInstance(surfaced.cls, "FileNotFoundError")
         /\ ~IsInstance(surfaced.cls, "ValueError")

C19_Witness ==
    /\ caller = "direct"
    /\ disk = MissingFile
    /\ SelectionWouldFail
    /\ Lower(request.provider) \notin {OLLAMA, OPENAI}
    /\ pc = "failed"
    /\ surfaced.cls = "FileNotFoundError"

\* generate of the local-server adapter has ended, inside summarize
OllamaGenerated ==
    /\ SummarizeEnded
    /\ Did("generate")
    /\ llm_adapter.cls = "OllamaAdapter"

\* C20 as stated: a non-success status of the local server gives an error
\* that is neither a connection error nor a value error, answered with 500;
\* connection errors come from transport failures only and value errors from
\* unparseable bodies only.
C20_OnlyUnparseableIsValueError ==
    OllamaGenerated =>
        /\ net.outcome = "http_error" =>
             /\ SummarizeFailed
             /\ ~IsInstance(surfaced.cls, "ConnectionError")
             /\ ~IsInstance(surfaced.cls, "ValueError")
             /\ HandlerEnded => status = 500
        /\ IsInstance(surfaced.cls, "ConnectionError") <=> net.outcome = "transport_error"
        /\ IsInstance(surfaced.cls, "ValueError") <=> net.outcome = "bad_json"

\* C20 as amended: the same, except that value errors come from unparseable
\* bodies and from bodies whose response field is not a string.
C20_StatusErrorIsUnexpected ==
    OllamaGenerated =>
        /\ net.outcome = "http_error" =>
             /\ SummarizeFailed
             /\ surfaced.cls = "HTTPStatusError"
             /\ ~IsInstance(surfaced.cls, "ConnectionError")
             /\ ~IsInstance(surfaced.cls, "ValueError")
             /\ HandlerEnded => status = 500
        /\ IsInstance(surfaced.cls, "ConnectionError") <=> net.outcome = "transport_error"
        /\ IsInstance(surfaced.cls, "ValueError") <=> net.outcome \in {"bad_json", "bad_type"}
        /\ net.outcome = "ok" <=> SummarizeSucceeded

C20_Witness ==
    /\ OllamaGenerated
    /\ HandlerEnded
    /\ net.outcome = "http_error"
    /\ surfaced.cls = "HTTPStatusError"
    /\ status = 500

----------------------------------------------------------------------------
(* The prompt and the LLMRequest summarize builds, as a function of the
   document and of the SummaryRequest *)

RAW_TITLE == <<"/">> \o TITLE
RAW_AUTHOR == <<"/">> \o AUTHOR

\* Document information with and without a title, with and without an author
PromptMetadata ==
    {EmptyDict, RAW_TITLE :> <<"Q", "1">>, RAW_AUTHOR :> <<"B">>,
     (RAW_TITLE :> <<"Q", "1">>) @@ (RAW_AUTHOR :> <<"B">>)}

PromptFiles ==
    {PdfFile(p, m) : p \in UNION {[1..n -> PageTexts] : n \in 0..MaxPages}, m \in PromptMetadata}

PromptRequests ==
    {SummaryRequest(REPORT, OLLAMA, model, temperature, max_tokens, None) :
        model \in {"m", "m2"}, temperature \in {0, Temperature}, max_tokens \in MaxTokens}

InitPrompt ==
    /\ PipeInit
    /\ NoFrontEnd
    /\ call \in {[file |-> f, req |-> r] : f \in PromptFiles, r \in PromptRequests}
    /\ ret = Nil

\* Lines 121 and 129-137 of summarize
PromptCall ==
    /\ ~ret.set
    /\ LET r == extract(None, call.req.pdf_path, call.file)
       IN  ret' = [set |-> TRUE, pdf_result |-> r.val,
                   llm_request |-> LLMRequest(create_summary_prompt(r.val), call.req)]
    /\ UNCHANGED <<call, pipeVars, view, tasks, tmpfs>>

SpecPrompt == InitPrompt /\ [][PromptCall]_vars

\* sub occurs in s as a block of consecutive elements
Infix(s, sub) ==
    \E i \in 1..(Len(s) - Len(sub) + 1) : SubSeq(s, i, i + Len(sub) - 1) = sub

\* C18: the prompt is never empty, even for an empty text; it holds the title
\* and the author of the document information ("Unknown" for an absent key),
\* the number of pages of the document and the whole extracted text; the
\* LLMRequest has the request's model, temperature and max_tokens.
C18_PromptEmbedsDocument ==
    ret.set =>
        LET prompt == ret.llm_request.prompt
            info == call.file.metadata
            title == IF RAW_TITLE \in DOMAIN info THEN info[RAW_TITLE] ELSE UNKNOWN
            author == IF RAW_AUTHOR \in DOMAIN info THEN info[RAW_AUTHOR] ELSE UNKNOWN
        IN  /\ Len(prompt) > 0
            /\ Infix(prompt, title \o <<"\nDOCUMENT AUTHOR: ">> \o author
                             \o <<"\nDOCUMENT PAGES: ", ToString(Len(call.file.pages))>>)
            /\ Infix(prompt, <<"\n\nDOCUMENT CONTENT:\n">> \o ret.pdf_result.text
                             \o <<"\n\nPlease provide a structured summary covering the main points, key findings, and important details.\n">>)
            /\ ret.llm_request.model = call.req.model
            /\ ret.llm_request.temperature = call.req.temperature
            /\ ret.llm_request.max_tokens = call.req.max_tokens

C18_Witness ==
    /\ ret.set
    /\ call.file.pages = <<>>
    /\ ret.pdf_result.text = <<>>
    /\ call.file.metadata = EmptyDict
    /\ Infix(ret.llm_request.prompt, UNKNOWN \o <<"\nDOCUMENT AUTHOR: ">> \o UNKNOWN)
    /\ call.req.max_tokens = Some(0)
    /\ ret.llm_request.max_tokens = Some(0)

----------------------------------------------------------------------------
(* ConsoleView.get_summary_request: the prompts of a console session *)

SPACE == " "

\* str.strip(), for blanks
RECURSIVE Strip(_)
Strip(s) ==
    IF s = <<>> THEN s
    ELSE IF Head(s) = SPACE THEN Strip(Tail(s))
    ELSE IF s[Len(s)] = SPACE THEN Strip(SubSeq(s, 1, Len(s) - 1))
    ELSE s

\* os.path.isabs(path) and os.path.abspath(path), the working directory
\* being the root directory
IsAbs(path) == StartsWith(path, <<"/">>)
AbsPath(path) == <<"/">> \o path

LLAMA2 == <<"l", "l", "a", "m", "a", "2">>
GPT35 == <<"g", "p", "t", "-", "3", ".", "5", "-", "t", "u", "r", "b", "o">>

\* The regular files the session can name (os.path.isfile)
ExistingFiles ==
    {<<"/", "r">> \o PDF_SUFFIX, <<"/", "R", ".", "P", "D", "F">>, <<"/", "n", ".", "t", "x", "t">>}

PathAnswers ==
    {<<>>, <<SPACE>>, <<"x">> \o PDF_SUFFIX, <<"/", "n", ".", "t", "x", "t">>,
     <<"r">> \o PDF_SUFFIX, <<SPACE, "/", "R", ".", "P", "D", "F", SPACE>>}

ProviderAnswers ==
    {<<>>, <<"o", "p", "e", "n">>, OLLAMA, <<"O", "L", "L", "A", "M", "A">>,
     <<SPACE, "O", "p", "e", "n", "A", "I", SPACE>>}

ModelAnswers == {<<>>, <<SPACE>>, <<"m">>}

KeyAnswers == {<<>>, <<SPACE>>, <<"s", "k">>, <<SPACE, "s", "k", SPACE>>}

\* The path passes the loop of get_pdf_path without the os.path.isfile test
PathAccepted_NoIsFile(pdf_path) == EndsWith(Lower(pdf_path), PDF_SUFFIX)

\* The two tests that end the loop of get_pdf_path, on the absolute path
PathAccepted(pdf_path) ==
    /\ pdf_path \in ExistingFiles
    /\ EndsWith(Lower(pdf_path), PDF_SUFFIX)

\* One prompt shown and the line input() returned for it
Prompt(kind, answer) == [kind |-> kind, answer |-> answer]

InitConsole ==
    /\ PipeInit
    /\ call = Nil
    /\ ret = Nil
    /\ tasks = Nil
    /\ tmpfs = Nil
    /\ view = [pc |-> "path", prompts |-> <<>>, retries |-> 0, pdf_path |-> <<>>,
               provider |-> <<>>, model |-> <<>>, api_key |-> None, request |-> Nil]

\* One turn of the loop of get_pdf_path
get_pdf_path ==
    /\ view.pc = "path"
    /\ \E answer \in PathAnswers :
         LET stripped == Strip(answer)
             pdf_path == IF IsAbs(stripped) THEN stripped ELSE AbsPath(stripped)
         IN  IF stripped # <<>> /\ PathAccepted(pdf_path)
             THEN view' = [view EXCEPT !.prompts = Append(@, Prompt("path", answer)),
                                       !.pdf_path = pdf_path, !.pc = "provider"]
             ELSE /\ view.retries < MaxRetries
                  /\ view' = [view EXCEPT !.prompts = Append(@, Prompt("path", answer)),
                                          !.retries = @ + 1]
    /\ UNCHANGED <<pipeVars, call, ret, tasks, tmpfs>>

\* One turn of the provider loop of get_provider_details
get_provider ==
    /\ view.pc = "provider"
    /\ \E answer \in ProviderAnswers :
         LET provider == Lower(Strip(answer))
         IN  IF provider \in {OLLAMA, OPENAI}
             THEN view' = [view EXCEPT !.prompts = Append(@, Prompt("provider", answer)),
                                       !.provider = provider, !.pc = "model"]
             ELSE /\ view.retries < MaxRetries
                  /\ view' = [view EXCEPT !.prompts = Append(@, Prompt("provider", answer)),
                                          !.retries = @ + 1]
    /\ UNCHANGED <<pipeVars, call, ret, tasks, tmpfs>>

\* The SummaryRequest get_summary_request returns
ConsoleRequest(v) ==
    SummaryRequest(v.pdf_path, v.provider, v.model, Temperature, None, v.api_key)

\* model = input(...).strip() or the provider's default; api_key = None for
\* the local server
get_model ==
    /\ view.pc = "model"
    /\ \E answer \in ModelAnswers :
         LET default == IF view.provider = OLLAMA THEN LLAMA2 ELSE GPT35
             model == IF TruthySeq(Some(Strip(answer))) THEN Strip(answer) ELSE default
             asked == [view EXCEPT !.prompts = Append(@, Prompt("model", answer)),
                                   !.model = model]
         IN  IF view.provider = OLLAMA
             THEN view' = [asked EXCEPT !.api_key = None, !.pc = "done",
                                        !.request = ConsoleRequest(asked)]
             ELSE view' = [asked EXCEPT !.pc = "key"]
    /\ UNCHANGED <<pipeVars, call, ret, tasks, tmpfs>>

\* The credential prompts with a second blank answer refused
get_api_key_RequireKey ==
    /\ view.pc \in {"key", "key_again"}
    /\ \E answer \in KeyAnswers :
         LET api_key == Some(Strip(answer))
             asked == [view EXCEPT !.prompts = Append(@, Prompt("key", answer)),
                                   !.api_key = api_key]
         IN  IF ~TruthySeq(api_key)
             THEN view' = [asked EXCEPT !.pc = IF view.pc = "key" THEN "key_again" ELSE "raised"]
             ELSE view' = [asked EXCEPT !.pc = "done", !.request = ConsoleRequest(asked)]
    /\ UNCHANGED <<pipeVars, call, ret, tasks, tmpfs>>

\* api_key = input(...).strip(), asked again once when it is empty
get_api_key ==
    /\ view.pc \in {"key", "key_again"}
    /\ \E answer \in KeyAnswers :
         LET api_key == Some(Strip(answer))
             asked == [view EXCEPT !.prompts = Append(@, Prompt("key", answer)),
                                   !.api_key = api_key]
         IN  IF view.pc = "key" /\ ~TruthySeq(api_key)
             THEN view' = [asked EXCEPT !.pc = "key_again"]
             ELSE view' = [asked EXCEPT !.pc = "done", !.request = ConsoleRequest(asked)]
    /\ UNCHANGED <<pipeVars, call, ret, tasks, tmpfs>>

\* input() raises EOFError when the input ends
input_EOF ==
    /\ view.pc \in {"path", "provider", "model", "key", "key_again"}
    /\ view' = [view EXCEPT !.pc = "raised"]
    /\ UNCHANGED <<pipeVars, call, ret, tasks, tmpfs>>

NextConsole ==
    \/ get_pdf_path
    \/ get_provider
    \/ get_model
    \/ get_api_key
    \/ input_EOF

SpecConsole == InitConsole /\ [][NextConsole]_vars

\* The order in which get_summary_request asks
Rank == ("path" :> 1) @@ ("provider" :> 2) @@ ("model" :> 3) @@ ("key" :> 4)

PromptsOf(kind) == SelectSeq(view.prompts, LAMBDA e : e.kind = kind)

\* The answer, stripped, names an existing file whose name ends in .pdf
ValidPathAnswer(answer) ==
    LET p == Strip(answer)
    IN  /\ p # <<>>
        /\ LET q == IF Head(p) = "/" THEN p ELSE <<"/">> \o p
           IN  q \in ExistingFiles /\ IsPdfName(q)

ValidProviderAnswer(answer) == Lower(Strip(answer)) \in {OLLAMA, OPENAI}

----------------------------------------------------------------------------
(* Two HTTP requests handled concurrently. Each has its own locals, its own
   PDFSummarizer, extractor and adapter (all created inside summarize_pdf and
   summarize); what they share is the temporary directory. *)

Tasks == {1, 2}

TempNames == {<<"t", "1">> \o PDF_SUFFIX, <<"t", "2">> \o PDF_SUFFIX, <<"t", "3">> \o PDF_SUFFIX}

\* A temporary file named without regard to the names in use
FreshNames_Fixed(fs) == {<<"t", "1">> \o PDF_SUFFIX}

\* NamedTemporaryFile creates its file exclusively: the name is not in use
FreshNames(fs) == TempNames \ DOMAIN fs

\* What a freshly created temporary file holds: nothing, which is no PDF
EmptyFile == CorruptFile("PdfReadError")

\* summarize from adapter selection on, given the extraction result
summarize_Selected(req, res, n) ==
    LET a == get_llm_adapter(req)
    IN  IF ~a.ok THEN Raise(Reraise(a.exc))
        ELSE LET g == generate(a.val, LLMRequest(create_summary_prompt(res), req), n)
             IN  IF ~g.ok THEN Raise(Reraise(g.exc))
                 ELSE Ok(SummaryResponse(req, res, g.val))

\* PDFSummarizer.summarize(request) when the path references file and the
\* provider behaves as n
summarize(req, file, n) ==
    LET res == extract(None, req.pdf_path, file)
    IN  IF ~res.ok THEN Raise(Reraise(res.exc)) ELSE summarize_Selected(req, res.val, n)

\* The answer of summarize_pdf for the result r of summarize
Answer(form, r) ==
    IF r.ok THEN [status |-> 200, body |-> APIResponse(r.val, form.filename)]
    ELSE [status |-> ExceptStatus(r.exc.cls), body |-> Nil]

FormRequest(form, path) ==
    SummaryRequest(path, form.provider, form.model, form.temperature, form.max_tokens,
                   KeyOrEnv(form.openai_api_key, form.env_key))

\* summarize_pdf handling one request alone: store is what storing the
\* upload does, n what the provider does
summarize_pdf(form, store, n) ==
    IF ~EndsWith(Lower(form.filename), PDF_SUFFIX) THEN [status |-> 400, body |-> Nil]
    ELSE IF store # "ok" THEN [status |-> ExceptStatus("Exception"), body |-> Nil]
    ELSE Answer(form, summarize(FormRequest(form, TMP), form.content, n))

Form(filename, provider, key, content) ==
    [filename |-> filename, provider |-> provider, model |-> "m",
     temperature |-> Temperature, max_tokens |-> None, openai_api_key |-> key,
     env_key |-> None, content |-> content]

TaskFiles ==
    {PdfFile(<<<<"a">>>>, EmptyDict), PdfFile(<<<<"b">>, <<"c">>>>, EmptyDict),
     CorruptFile("PdfReadError")}

TaskNets(provider) ==
    {[outcome |-> "transport_error", reply |-> EmptyDict]} \cup
    IF provider = OLLAMA
    THEN {[outcome |-> "ok", reply |-> ("response" :> <<"S">>) @@ ("model" :> "m2")]}
    ELSE {[outcome |-> "ok", reply |-> [choices |-> Some(<<Choice(Some(<<"S">>))>>),
                                        usage |-> None, model |-> "m2"]]}

\* The requests: one with a name that is no PDF name, one whose upload cannot
\* be read, and the readable ones
TaskInputs ==
    {[form |-> Form(<<"a", ".", "t", "x", "t">>, OLLAMA, None, CorruptFile("PdfReadError")),
      store |-> "ok", net |-> n] : n \in {[outcome |-> "transport_error", reply |-> EmptyDict]}}
    \cup
    {[form |-> Form(<<"a">> \o PDF_SUFFIX, OLLAMA, None, CorruptFile("PdfReadError")),
      store |-> "read_fails", net |-> n] :
        n \in {[outcome |-> "transport_error", reply |-> EmptyDict]}}
    \cup
    UNION {{[form |-> Form(<<"a">> \o PDF_SUFFIX, pk[1], pk[2], c), store |-> "ok", net |-> n] :
               c \in TaskFiles, n \in TaskNets(pk[1])} :
             pk \in {<<OLLAMA, None>>, <<OPENAI, None>>, <<OPENAI, Some(<<"s", "k">>)>>}}

IdleTask ==
    [pc |-> "idle", form |-> Nil, store |-> "ok", net |-> Nil, temp_file |-> None,
     temp_path |-> None, pdf_result |-> Nil, status |-> 0, body |-> Nil, overlap |-> FALSE]

InitTasks ==
    /\ PipeInit
    /\ call = Nil
    /\ ret = Nil
    /\ view = Nil
    /\ tasks = [t \in Tasks |-> IdleTask]
    /\ tmpfs = EmptyDict

InProgress(t) == tasks[t].pc \notin {"idle", "returned"}

\* The request arrives; the filename check
task_Receive(t) ==
    /\ tasks[t].pc = "idle"
    /\ \E i \in TaskInputs :
         LET begun == [tasks[t] EXCEPT !.form = i.form, !.store = i.store, !.net = i.net,
                                      !.overlap = \E u \in Tasks \ {t} : InProgress(u)]
         IN  IF ~EndsWith(Lower(i.form.filename), PDF_SUFFIX)
             THEN tasks' = [tasks EXCEPT ![t] = [begun EXCEPT !.status = 400, !.pc = "returned"]]
             ELSE tasks' = [tasks EXCEPT ![t] = [begun EXCEPT !.pc = "create"]]
    /\ UNCHANGED <<pipeVars, call, ret, view, tmpfs>>

\* tempfile.NamedTemporaryFile(delete=False, suffix='.pdf')
task_CreateTemp(t) ==
    /\ tasks[t].pc = "create"
    /\ \E name \in FreshNames(tmpfs) :
         /\ tmpfs' = (name :> EmptyFile) @@ tmpfs
         /\ tasks' = [tasks EXCEPT ![t].temp_file = Some(name), ![t].pc = "write"]
    /\ UNCHANGED <<pipeVars, call, ret, view>>

\* content = await file.read(); temp_file.write(content); temp_path =
\* temp_file.name; the file is closed. A failing read leaves the try block.
task_StoreUpload(t) ==
    /\ tasks[t].pc = "write"
    /\ LET name == tasks[t].temp_file.val
       IN  IF tasks[t].store = "ok"
           THEN /\ tmpfs' = IF name \in DOMAIN tmpfs
                            THEN [tmpfs EXCEPT ![name] = tasks[t].form.content]
                            ELSE tmpfs
                /\ tasks' = [tasks EXCEPT ![t].temp_path = Some(name), ![t].pc = "extract"]
           ELSE /\ tmpfs' = tmpfs
                /\ tasks' = [tasks EXCEPT ![t].status = ExceptStatus("Exception"),
                                          ![t].pc = "finally"]
    /\ UNCHANGED <<pipeVars, call, ret, view>>

\* summarize, up to the extraction: it reads the temporary file
task_Extract(t) ==
    /\ tasks[t].pc = "extract"
    /\ LET name == tasks[t].temp_path.val
           file == IF name \in DOMAIN tmpfs THEN tmpfs[name] ELSE MissingFile
           res == extract(None, name, file)
       IN  IF res.ok
           THEN tasks' = [tasks EXCEPT ![t].pdf_result = res.val, ![t].pc = "generate"]
           ELSE tasks' = [tasks EXCEPT ![t].status = Answer(tasks[t].form, Raise(Reraise(res.exc))).status,
                                       ![t].pc = "finally"]
    /\ UNCHANGED <<pipeVars, call, ret, view, tmpfs>>

\* summarize, from the adapter selection to its end, and the answer
task_Generate(t) ==
    /\ tasks[t].pc = "generate"
    /\ LET req == FormRequest(tasks[t].form, tasks[t].temp_path.val)
           answer == Answer(tasks[t].form,
                            summarize_Selected(req, tasks[t].pdf_result, tasks[t].net))
       IN  tasks' = [tasks EXCEPT ![t].status = answer.status, ![t].body = answer.body,
                                  ![t].pc = "finally"]
    /\ UNCHANGED <<pipeVars, call, ret, view, tmpfs>>

\* finally: unlink temp_path when it is set and exists
task_Finally(t) ==
    /\ tasks[t].pc = "finally"
    /\ \E unlink_ok \in BOOLEAN :
         LET path == tasks[t].temp_path
             exists == (~path.isNone) /\ path.val \in DOMAIN tmpfs
         IN  tmpfs' = IF exists /\ ~Cleanup(path, exists, unlink_ok)
                      THEN [n \in DOMAIN tmpfs \ {path.val} |-> tmpfs[n]]
                      ELSE tmpfs
    /\ tasks' = [tasks EXCEPT ![t].pc = "returned"]
    /\ UNCHANGED <<pipeVars, call, ret, view>>

NextTasks ==
    \E t \in Tasks :
        \/ task_Receive(t)
        \/ task_CreateTemp(t)
        \/ task_StoreUpload(t)
        \/ task_Extract(t)
        \/ task_Generate(t)
        \/ task_Finally(t)

SpecTasks == InitTasks /\ [][NextTasks]_vars

\* C12: whatever the interleaving of two requests, each is answered as it
\* would be alone (same status, same body); while a request that has stored
\* its upload is in progress, its temporary file exists and holds its own
\* upload; two requests never hold the same temporary file.
C12_RequestsAreIndependent ==
    \A t \in Tasks :
        /\ tasks[t].pc \in {"finally", "returned"} =>
             [status |-> tasks[t].status, body |-> tasks[t].body]
                 = summarize_pdf(tasks[t].form, tasks[t].store, tasks[t].net)
        /\ (tasks[t].pc \in {"extract", "generate", "finally"} /\ ~tasks[t].temp_path.isNone) =>
             /\ tasks[t].temp_path.val \in DOMAIN tmpfs
             /\ tmpfs[tasks[t].temp_path.val] = tasks[t].form.content
        /\ \A u \in Tasks \ {t} :
             (InProgress(t) /\ InProgress(u) /\ ~tasks[t].temp_file.isNone
                 /\ ~tasks[u].temp_file.isNone) =>
                 tasks[t].temp_file # tasks[u].temp_file

C12_Witness ==
    /\ tasks[1].pc = "generate"
    /\ tasks[2].overlap
    /\ tasks[2].pc = "returned"
    /\ tasks[2].status = 200
    /\ tasks[2].temp_path.val \notin DOMAIN tmpfs
    /\ tasks[1].form.content # tasks[2].form.content

----------------------------------------------------------------------------
(* SummarizerController.run: welcome, get_summary_request, summarize, and
   the display of the summary or of the error *)

\* What request.pdf_path references when summarize extracts it (the file the
\* view saw may be no valid PDF, and may be gone by then)
RunFiles ==
    {PdfFile(<<<<"a">>>>, EmptyDict), CorruptFile("PdfReadError"), MissingFile}

\* One call of a display method of the view
Display(kind, exc) == [kind |-> kind, exc |-> exc]

InitRun ==
    /\ PipeInit
    /\ call = Nil
    /\ ret = Nil
    /\ tasks = Nil
    /\ tmpfs = Nil
    /\ view = [pc |-> "welcome", prompts |-> <<>>, retries |-> 0, pdf_path |-> <<>>,
               provider |-> <<>>, model |-> <<>>, api_key |-> None, request |-> Nil,
               displayed |-> <<>>]

\* self.view.display_welcome()
run_Welcome ==
    /\ view.pc = "welcome"
    /\ view' = [view EXCEPT !.displayed = Append(@, Display("welcome", NoExc)),
                            !.pc = "path"]
    /\ UNCHANGED <<pipeVars, call, ret, tasks, tmpfs>>

\* input() raises KeyboardInterrupt when the user interrupts at a prompt
input_Interrupt ==
    /\ view.pc \in {"path", "provider", "model", "key", "key_again"}
    /\ view' = [view EXCEPT !.pc = "interrupted"]
    /\ UNCHANGED <<pipeVars, call, ret, tasks, tmpfs>>

\* response = await self.summarizer.summarize(request)
run_Summarize ==
    /\ view.pc = "done"
    /\ pc = "idle"
    /\ caller' = "console"
    /\ request' = view.request
    /\ disk' \in RunFiles
    /\ pc' = "extract"
    /\ UNCHANGED <<upload, temp_exists, temp_created, temp_path, pdf_result, llm_adapter,
                   llm_request, llm_response, net, steps, netCalls, raised, surfaced,
                   caught, response, status, body, call, ret, view, tasks, tmpfs>>

\* self.view.display_summary(...); return response
run_DisplaySummary ==
    /\ pc = "summarized"
    /\ caller = "console"
    /\ view' = [view EXCEPT !.displayed = Append(@, Display("summary", NoExc))]
    /\ ret' = Ok(response) @@ [set |-> TRUE]
    /\ pc' = "returned"
    /\ UNCHANGED <<caller, upload, disk, temp_exists, temp_created, temp_path, request,
                   pdf_result, llm_adapter, llm_request, llm_response, net, steps,
                   netCalls, raised, surfaced, caught, response, status, body, call,
                   tasks, tmpfs>>

\* The exception that leaves the try block of run
RunException ==
    IF view.pc = "raised" THEN Exc("EOFError", "", <<>>)
    ELSE IF view.pc = "interrupted" THEN Exc("KeyboardInterrupt", "", <<>>)
    ELSE surfaced

\* An except clause that catches everything
RunCatches_Everything(cls) == TRUE

\* "except Exception as e"
RunCatches(cls) == IsInstance(cls, "Exception")

\* except Exception as e: self.view.display_error(str(e)); return None.
\* What the clause does not catch leaves run.
run_Except ==
    /\ \/ view.pc \in {"raised", "interrupted"} /\ pc = "idle"
       \/ pc = "failed" /\ caller = "console"
    /\ caught' = RunException
    /\ IF RunCatches(RunException.cls)
       THEN /\ view' = [view EXCEPT !.displayed = Append(@, Display("error", RunException))]
            /\ ret' = Ok(None) @@ [set |-> TRUE]
       ELSE /\ view' = view
            /\ ret' = Raise(RunException) @@ [set |-> TRUE]
    /\ pc' = "returned"
    /\ UNCHANGED <<caller, upload, disk, temp_exists, temp_created, temp_path, request,
                   pdf_result, llm_adapter, llm_request, llm_response, net, steps,
                   netCalls, raised, surfaced, response, status, body, call, tasks, tmpfs>>

NextRun ==
    \/ run_Welcome
    \/ get_pdf_path
    \/ get_provider
    \/ get_model
    \/ get_api_key
    \/ input_EOF
    \/ input_Interrupt
    \/ run_Summarize
    \/ summarize_Extract
    \/ summarize_GetAdapter
    \/ summarize_CreatePrompt
    \/ summarize_Generate
    \/ summarize_Return
    \/ summarize_Except
    \/ run_DisplaySummary
    \/ run_Except

SpecRun == InitRun /\ [][NextRun]_vars

DisplaysOf(kind) == SelectSeq(view.displayed, LAMBDA d : d.kind = kind)

\* run has returned or raised
RunEnded == ret.set

\* run ended as the claim describes: the summary displayed once and the
\* response returned, or an error displayed once and None returned
RunEndedByDisplay ==
    /\ ret.ok
    /\ \/ /\ Len(DisplaysOf("summary")) = 1
          /\ DisplaysOf("error") = <<>>
          /\ ret.val = response
          /\ SummarizeSucceeded
       \/ /\ Len(DisplaysOf("error")) = 1
          /\ DisplaysOf("summary") = <<>>
          /\ ret.val = None
          /\ response = Nil

\* Whenever an error is on display, the step that failed has been executed
\* and summarize has ended, or the input has ended
ErrorAfterFailure ==
    DisplaysOf("error") # <<>> =>
        /\ pc = "returned"
        /\ \/ view.pc = "raised"
           \/ SummarizeFailed /\ DisplaysOf("error")[1].exc = surfaced

\* C21 as stated: run never raises; it ends by displaying the summary once
\* and returning the response, or by displaying an error once and returning
\* None; never both displays; the error is displayed after the failing step.
C21_RunNeverRaises ==
    /\ RunEnded => RunEndedByDisplay
    /\ ~RunEnded => (DisplaysOf("summary") = <<>> /\ DisplaysOf("error") = <<>>)
    /\ ErrorAfterFailure

\* C21 as amended: the same for every outcome that is an Exception; an
\* interrupt at a prompt (KeyboardInterrupt) leaves run, with no summary and
\* no error displayed.
C21_RunRaisesOnlyInterrupt ==
    /\ RunEnded =>
         /\ ~ret.ok <=> view.pc = "interrupted"
         /\ ret.ok => RunEndedByDisplay
         /\ ~ret.ok =>
              /\ ret.exc.cls = "KeyboardInterrupt"
              /\ DisplaysOf("summary") = <<>>
              /\ DisplaysOf("error") = <<>>
    /\ ~RunEnded => (DisplaysOf("summary") = <<>> /\ DisplaysOf("error") = <<>>)
    /\ ErrorAfterFailure

C21_Witness ==
    /\ RunEnded
    /\ ret.ok
    /\ ret.val = None
    /\ Did("generate")
    /\ Len(DisplaysOf("error")) = 1
    /\ DisplaysOf("error")[1].exc.cls = "ConnectionError"

\* The credential was asked twice and left blank both times
BlankTwice ==
    /\ Len(PromptsOf("key")) = 2
    /\ Strip(PromptsOf("key")[1].answer) = <<>>
    /\ Strip(PromptsOf("key")[2].answer) = <<>>

\* The request with the empty credential is built and, once run calls
\* summarize, it is the request submitted
BlankRequestSubmitted ==
    /\ view.pc = "done"
    /\ view.request # Nil
    /\ view.request.provider = OPENAI
    /\ view.request.openai_api_key = Some(<<>>)
    /\ caller = "console" => request = view.request

\* run displayed the error summarize failed with, and no summary
SurfacedErrorDisplayed ==
    /\ SummarizeFailed
    /\ Len(DisplaysOf("error")) = 1
    /\ DisplaysOf("error")[1].exc = surfaced
    /\ DisplaysOf("summary") = <<>>
    /\ ret.ok
    /\ ret.val = None

\* C22 as stated: with the cloud provider and the credential blank at both
\* prompts, the request is built with an empty credential and submitted;
\* summarize fails with a value error at adapter selection, after extraction
\* and before any network call, and the controller displays that error.
C22_BlankCredentialFailsAtSelection ==
    BlankTwice =>
        /\ BlankRequestSubmitted
        /\ netCalls = 0
        /\ RunEnded =>
             /\ SurfacedErrorDisplayed
             /\ IsInstance(surfaced.cls, "ValueError")
             /\ pdf_result # Nil
             /\ steps = SubSeq(AllSteps, 1, 2)

\* C22 as amended: the same when the extraction succeeds; when it fails, the
\* error displayed is the extraction's failure; in both cases no adapter is
\* constructed, no network call is issued and no summary is displayed.
C22_BlankCredentialNeverCalls ==
    BlankTwice =>
        /\ BlankRequestSubmitted
        /\ netCalls = 0
        /\ llm_adapter = Nil
        /\ RunEnded =>
             /\ SurfacedErrorDisplayed
             /\ pdf_result # Nil =>
                  /\ IsInstance(surfaced.cls, "ValueError")
                  /\ steps = SubSeq(AllSteps, 1, 2)
             /\ pdf_result = Nil => steps = SubSeq(AllSteps, 1, 1)

C22_Witness ==
    /\ BlankTwice
    /\ RunEnded
    /\ pdf_result # Nil
    /\ steps = SubSeq(AllSteps, 1, 2)
    /\ surfaced.cls = "ValueError"
    /\ Len(DisplaysOf("error")) = 1
    /\ DisplaysOf("error")[1].exc = surfaced

====
